---- MODULE Spec2Model ----
(***************************************************************************)
(* Model of tools/generate_readme.py: the profile README generator.        *)
(*                                                                         *)
(* Text is modelled as a sequence of tokens (a token is one character or   *)
(* an unbroken chunk of characters), so that f-strings are concatenations, *)
(* str.strip() drops blank tokens at both ends and str.replace() maps over *)
(* the tokens.  Python's None is the model value None.  A Python dict is   *)
(* a function on its key set; the insertion-ordered mapping lang_totals,   *)
(* whose iteration order the renderer depends on, is a sequence of         *)
(* [lang, bytes] items with distinct lang.                                 *)
(*                                                                         *)
(* Floats: pct = b / total_bytes * 100 is carried as the exact rational    *)
(* 100*b / total_bytes.  round() and the ".1f" format both round the       *)
(* binary value half-to-even; on the byte totals of this model the binary  *)
(* value and the rational round to the same result.                        *)
(***************************************************************************)
EXTENDS Integers, Sequences, FiniteSets, TLC

\* ---------------------------------------------------------------- bounds
MaxLangs == 4          \* languages in a rendered mapping
MaxBytes == 5          \* byte count of one language in a rendered mapping
MaxEvents  == 3        \* events in a feed
MaxCommits == 2        \* commits in one push event
MaxLimit   == 5        \* limit passed to fetch_recent_commits
MaxRepos   == 250      \* repositories in a listing fetched on its own
MaxFailPage == 4       \* last page whose request may fail
MaxPages   == 2        \* full pages of the listing in a whole run
MaxAggRepos == 3       \* repositories aggregated on their own
MaxOwnRepos == 2       \* repositories of a run that is about the configuration

\* ------------------------------------------------------- program constants
BAR_LENGTH == 20       \* progress_bar(pct, length=20)
PER_PAGE   == 100      \* params["per_page"], len(page_data) < 100
MAIN_LIMIT == 5        \* fetch_recent_commits(..., limit=5) in main

None      == <<"None">>        \* Python's None
Running   == -1                \* exit_code of a process that has not ended

\* What gh_get does with a request: it returns the decoded body, or raises
\* (raise_for_status on a non-success status, a timeout, ...).
Ok(body)  == [raised |-> FALSE, body |-> body]
HTTPError == [raised |-> TRUE]

VARIABLES
    pc,               \* the call main is about to make
    config_file,      \* config.yml: Missing, or Ok(the dict it holds)
    env_actor,        \* os.getenv("GITHUB_ACTOR")
    cfg,              \* the dict load_config returns
    username,         \* the resolved user name
    listing,          \* the user's repositories as the remote listing holds them
    fail_page,        \* the page of the listing whose request fails (0: none)
    page,             \* fetch_repos' page
    repos,            \* fetch_repos' repos, then main's
    lang_api,         \* what the languages endpoint answers for each repository
    requests,         \* the requests gh_get has issued, in order
    lang_totals,      \* insertion-ordered mapping language -> bytes
    lang_section_md,  \* output of build_language_section
    events,           \* what the events endpoint answers
    limit,            \* fetch_recent_commits' limit
    recent_commits,   \* output of fetch_recent_commits
    visitor_badge,    \* output of build_visitor_badge
    fs,               \* the paths, relative to ROOT, at which a file exists
    gif_url,          \* output of find_gif_url
    readme_md,        \* output of build_readme
    out_file,         \* README.md on disk
    writes,           \* how often README.md was written
    exit_code         \* the process's exit code, Running until it ends

cfgVars   == <<config_file, env_actor, cfg, username>>
reposVars == <<listing, fail_page, page, repos>>
aggVars   == <<lang_api, lang_totals>>
feedVars  == <<events, limit, recent_commits>>
gifVars   == <<fs, gif_url>>
outVars   == <<visitor_badge, readme_md, out_file, writes, exit_code>>
vars == <<pc, cfgVars, reposVars, aggVars, requests, lang_section_md,
          feedVars, gifVars, outVars>>

\* ------------------------------------------------------------ arithmetic
Abs(x) == IF x < 0 THEN -x ELSE x

\* round(num / den) for den > 0, ties to the even integer (Python 3 round,
\* and the rounding of the "f" format).
RoundHalfEven(num, den) ==
    LET q == num \div den
        r == num % den
    IN  IF 2 * r < den THEN q
        ELSE IF 2 * r > den THEN q + 1
        ELSE IF q % 2 = 0 THEN q ELSE q + 1

\* c * k : a string repeated k times (empty for k <= 0)
Repeat(c, k) == [i \in 1..k |-> c]

\* ------------------------------------------------- percentage/bar renderer
SumBytes(items) ==
    LET RECURSIVE S(_)
        S(i) == IF i = 0 THEN 0 ELSE S(i - 1) + items[i].bytes
    IN  S(Len(items))

FILLED == "#"          \* the full-block glyph
EMPTY  == "."          \* the light-shade glyph

\* the bar with the fraction truncated instead of rounded
progress_bar_floor(pctNum, pctDen, length) ==
    LET filled == (pctNum * length) \div (pctDen * 100)
        empty  == length - filled
    IN  Repeat(FILLED, filled) \o Repeat(EMPTY, empty)

\* progress_bar(percent, length) with percent = pctNum / pctDen
progress_bar(pctNum, pctDen, length) ==
    LET filled == RoundHalfEven(pctNum * length, pctDen * 100)
        empty  == length - filled
    IN  Repeat(FILLED, filled) \o Repeat(EMPTY, empty)

\* the percentage truncated to one decimal instead of rounded
FormatPctTrunc(pctNum, pctDen) ==
    LET tenths == (pctNum * 10) \div pctDen
    IN  <<tenths \div 10, ".", tenths % 10, "%">>

\* f"{pct:.1f}%" as <<integer part, ".", first decimal, "%">>
FormatPct(pctNum, pctDen) ==
    LET tenths == RoundHalfEven(pctNum * 10, pctDen)
    IN  <<tenths \div 10, ".", tenths % 10, "%">>

\* sorted(items, key=lambda kv: kv[1], reverse=True): a stable sort, so
\* items of equal bytes keep their relative order.  Insertion of each item
\* after the last item that is not smaller.
InsertByBytes(sorted, kv) ==
    LET before == {i \in 1..Len(sorted) : sorted[i].bytes >= kv.bytes}
        k      == Cardinality(before)
    IN  SubSeq(sorted, 1, k) \o <<kv>> \o SubSeq(sorted, k + 1, Len(sorted))

\* the same sort without reverse=True
SortedByBytesAsc(items) ==
    LET Ins(s, kv) ==
            LET k == Cardinality({i \in 1..Len(s) : s[i].bytes <= kv.bytes})
            IN  SubSeq(s, 1, k) \o <<kv>> \o SubSeq(s, k + 1, Len(s))
        RECURSIVE Go(_)
        Go(i) == IF i = 0 THEN <<>> ELSE Ins(Go(i - 1), items[i])
    IN  Go(Len(items))

SortedByBytesDesc(items) ==
    LET RECURSIVE Go(_)
        Go(i) == IF i = 0 THEN <<>> ELSE InsertByBytes(Go(i - 1), items[i])
    IN  Go(Len(items))

NO_LANGUAGE_DATA == <<"No language data available.">>

TableHeader == <<"| Language | % | Progress |", "|---:|:---:|:---|">>

\* one table line f"| {lang} | {pct_str} | {bar} |"
TableRow(kv, total_bytes) ==
    [lang    |-> kv.lang,
     pct_str |-> FormatPct(kv.bytes * 100, total_bytes),
     bar     |-> progress_bar(kv.bytes * 100, total_bytes, BAR_LENGTH)]

build_language_section(totals) ==
    LET total_bytes == SumBytes(totals)
        ordered     == SortedByBytesDesc(totals)
    IN  IF total_bytes = 0
        THEN NO_LANGUAGE_DATA
        ELSE TableHeader \o
             [i \in 1..Len(ordered) |-> TableRow(ordered[i], total_bytes)]

\* -------------------------------------------------- recent-activity fetcher
\* "if x" on a string or None
Truthy(x) == x # None /\ x # <<>>

\* the dict appended for commit c of event ev
CommitRef(ev, c) ==
    LET repo_name == ev.repo
        sha       == c.sha
    IN  [repo    |-> repo_name,
         message |-> c.message,
         url     |-> IF Truthy(sha) /\ Truthy(repo_name)
                     THEN <<"https://github.com/">> \o repo_name
                          \o <<"/commit/">> \o sha
                     ELSE <<>>]

\* fetch_recent_commits, given what gh_get answers.  Scan(e, c, commits) is
\* the loop at event e, commit c of that event.
fetch_recent_commits(response, lim) ==
    LET feed == response.body
        RECURSIVE Scan(_, _, _)
        Scan(e, c, commits) ==
            IF e > Len(feed) THEN commits
            ELSE IF feed[e].type # "PushEvent" THEN Scan(e + 1, 1, commits)
            ELSE IF c > Len(feed[e].commits) THEN Scan(e + 1, 1, commits)
            ELSE LET appended == Append(commits, CommitRef(feed[e], feed[e].commits[c]))
                 IN  IF Len(appended) >= lim THEN appended
                     ELSE Scan(e, c + 1, appended)
    IN  IF response.raised THEN <<>> ELSE Scan(1, 1, <<>>)

\* ------------------------------------------------- animated-image resolver
\* d.get(key, default)
Get(d, key, default) == IF key \in DOMAIN d THEN d[key] ELSE default

\* str.strip(): the text without the blanks at its two ends
Strip(str) ==
    LET inked == {i \in DOMAIN str : str[i] # " "}
    IN  IF inked = {} THEN <<>>
        ELSE SubSeq(str, CHOOSE i \in inked : \A j \in inked : i <= j,
                         CHOOSE i \in inked : \A j \in inked : i >= j)

\* str.replace(old, new) for one-character old and new
Replace(str, old, new) == [i \in DOMAIN str |-> IF str[i] = old THEN new ELSE str[i]]

\* the resolver with the local asset looked at before the external URL
find_gif_url_local_first(config, user, files) ==
    LET external == Strip(Get(config, "external_gif_url", <<>>))
        gif_path == Strip(Get(config, "gif_path", <<>>))
        stripped == Strip(Get(config, "branch_name", <<"Main">>))
        branch   == IF stripped # <<>> THEN stripped ELSE <<"Main">>
    IN  IF gif_path # <<>> /\ gif_path \in files THEN Replace(gif_path, "\\", "/")
        ELSE IF external # <<>> THEN external
        ELSE IF gif_path = <<>> THEN <<>>
        ELSE <<"https://raw.githubusercontent.com/">> \o user \o <<"/">> \o user
             \o <<"/">> \o branch \o <<"/">> \o gif_path

\* find_gif_url(cfg, username); files is what os.path.exists sees under ROOT
find_gif_url(config, user, files) ==
    LET external == Strip(Get(config, "external_gif_url", <<>>))
        gif_path == Strip(Get(config, "gif_path", <<>>))
        stripped == Strip(Get(config, "branch_name", <<"Main">>))
        branch   == IF stripped # <<>> THEN stripped ELSE <<"Main">>
    IN  IF external # <<>> THEN external
        ELSE IF gif_path = <<>> THEN <<>>
        ELSE IF gif_path \in files THEN Replace(gif_path, "\\", "/")
        ELSE <<"https://raw.githubusercontent.com/">> \o user \o <<"/">> \o user
             \o <<"/">> \o branch \o <<"/">> \o gif_path

\* ----------------------------------------------------- repository fetcher
\* what gh_get answers for page p of the listing (per_page = 100)
RepoPage(p) ==
    IF p = fail_page THEN HTTPError
    ELSE Ok(SubSeq(listing, (p - 1) * PER_PAGE + 1,
                   IF p * PER_PAGE <= Len(listing) THEN p * PER_PAGE
                   ELSE Len(listing)))

Request(endpoint, arg) == [endpoint |-> endpoint, arg |-> arg]

\* ------------------------------------------------------ language aggregator
\* totals[lang] += bytes_count on a defaultdict(int): a new key goes last
AddBytes(totals, lang, bytes_count) ==
    IF \E i \in DOMAIN totals : totals[i].lang = lang
    THEN [i \in DOMAIN totals |->
            IF totals[i].lang = lang
            THEN [lang |-> lang, bytes |-> totals[i].bytes + bytes_count]
            ELSE totals[i]]
    ELSE Append(totals, [lang |-> lang, bytes |-> bytes_count])

\* for lang, bytes_count in data.items(): totals[lang] += bytes_count
AddData(totals, data) ==
    LET RECURSIVE Add(_)
        Add(i) == IF i = 0 THEN totals
                  ELSE AddBytes(Add(i - 1), data[i].lang, data[i].bytes)
    IN  Add(Len(data))

\* the repositories the loop issues a request for: not a fork, with a URL
Requested(r) == ~r.fork /\ Truthy(r.languages_url)

\* the repositories the loop gets an answer for
Answered(r, api) == Requested(r) /\ ~api[r.id].raised

\* the breakdowns in rs added up in order; a repository whose breakdown is
\* empty adds nothing and is passed over
AddAll(rs, api) ==
    LET adding == SelectSeq(rs, LAMBDA r : api[r.id].body # <<>>)
        RECURSIVE Loop(_)
        Loop(i) == IF i = 0 THEN <<>>
                   ELSE AddData(Loop(i - 1), api[adding[i].id].body)
    IN  Loop(Len(adding))

\* the aggregator that asks for the languages of forks as well
fetch_languages_with_forks(rs, api) ==
    AddAll(SelectSeq(rs, LAMBDA r : Truthy(r.languages_url) /\ ~api[r.id].raised), api)

\* fetch_languages_for_repos, given what gh_get answers for each repository:
\* forks, repositories without a URL and failed requests are skipped
fetch_languages_for_repos(rs, api) ==
    AddAll(SelectSeq(rs, LAMBDA r : Answered(r, api)), api)

\* the requests that loop issues, in order
LanguageRequests(rs) ==
    LET asked == SelectSeq(rs, Requested)
    IN  [i \in DOMAIN asked |-> Request("languages", asked[i].id)]

\* ------------------------------------------------------- document builder
Line(tpl, args) == [tpl |-> tpl, args |-> args]

NO_COMMITS == "_No public commits found yet -- start committing!_\n"

make_shield_link(label, color, logo) ==
    <<"https://img.shields.io/badge/">> \o Replace(label, " ", "%20") \o <<"-">>
    \o color \o <<"?style=for-the-badge&logo=">> \o logo \o <<"&logoColor=white">>

\* urllib.parse.quote_plus on the tokens of a URL
QuotePlus(str) ==
    [i \in DOMAIN str |->
        IF str[i] = "/" THEN "%2F" ELSE IF str[i] = ":" THEN "%3A" ELSE str[i]]

build_visitor_badge(user) ==
    LET countapi_endpoint ==
            <<"https", ":", "/", "/", "api.countapi.xyz", "/", "hit", "/">>
            \o user \o <<"/">> \o user
    IN  <<"https://img.shields.io/badge/dynamic/json",
          "?color=blue&label=Visitors&query=value&url=">>
        \o QuotePlus(countapi_endpoint)

StatsImg(user) ==
    <<"https://github-readme-stats.vercel.app/api?username=">> \o user
    \o <<"&show_icons=true&count_private=false&theme=radical">>
TopLangsImg(user) ==
    <<"https://github-readme-stats.vercel.app/api/top-langs/?username=">> \o user
    \o <<"&layout=compact&langs_count=8&theme=radical">>

CommitLine(c) ==
    IF Truthy(c.url)
    THEN Line("- [{message}]({url}) -- _{repo}_", <<c.message, c.url, c.repo>>)
    ELSE Line("- {message} -- _{repo}_", <<c.message, c.repo>>)

\* the lines of the document once linkedin_url has been read and stripped
ReadmeLines(c, stats_img_urls, section_md, commits, last_updated, linkedin) ==
    LET display_name   == Get(c, "display_name", Get(c, "github_username", None))
        bio_code       == Get(c, "bio_code", <<>>)
        badge          == Get(c, "visitor_badge_url", None)
        gif            == Get(c, "gif_url", None)
        stats_card     == Get(stats_img_urls, "stats", None)
        top_langs_card == Get(stats_img_urls, "top_langs", None)
        cards ==
            (IF Truthy(stats_card)
             THEN <<Line("![GitHub stats]({stats_card})", <<stats_card>>)>> ELSE <<>>)
            \o (IF Truthy(top_langs_card)
                THEN <<Line("![Top languages]({top_langs_card})", <<top_langs_card>>)>>
                ELSE <<>>)
            \o (IF Truthy(badge)
                THEN <<Line("[![Visitors]({visitor_badge})](https://github.com/{user})",
                            <<badge, Get(c, "github_username", None)>>)>>
                ELSE <<>>)
    IN  <<Line("# {display_name}\n", <<display_name>>)>>
        \o (IF Truthy(gif)
            THEN <<Line("<p align='center'>", <<>>),
                   Line("  <img src='{gif_url}' alt='Animated coder' width='320'/>",
                        <<gif>>),
                   Line("</p>\n", <<>>)>>
            ELSE <<>>)
        \o (IF Truthy(bio_code)
            THEN <<Line("'''cpp", <<>>), Line("{bio_code}", <<bio_code>>),
                   Line("'''\n", <<>>)>>
            ELSE <<>>)
        \o (IF Truthy(linkedin)
            THEN <<Line("[![LinkedIn]({shield})]({linkedin})  ",
                        <<make_shield_link(<<"LinkedIn">>, <<"blue">>, <<"linkedin">>),
                          linkedin>>)>>
            ELSE <<>>)
        \o (IF cards # <<>> THEN <<Line("{cards}\n", cards)>> ELSE <<>>)
        \o <<Line("## Languages\n", <<>>), Line("{lang_section_md}", section_md),
             Line("## Recent activity\n", <<>>)>>
        \o (IF commits = <<>>
            THEN <<Line(NO_COMMITS, <<>>)>>
            ELSE [i \in 1..Len(commits) |-> CommitLine(commits[i])]
                 \o <<Line("", <<>>)>>)
        \o <<Line("_Last updated: {last_updated} UTC_\n", <<last_updated>>),
             Line("---", <<>>),
             Line("This README is generated automatically.", <<>>)>>

AttributeError == [raised |-> TRUE]

\* build_readme: cfg.get("linkedin_url", "").strip() raises on None
build_readme(c, stats_img_urls, section_md, commits, last_updated) ==
    LET linkedin_url == Get(c, "linkedin_url", <<>>)
    IN  IF linkedin_url = None THEN AttributeError
        ELSE Ok(ReadmeLines(c, stats_img_urls, section_md, commits, last_updated,
                            Strip(linkedin_url)))

\* ------------------------------------------------------------------- main
Missing    == [exists |-> FALSE]
File(body) == [exists |-> TRUE, body |-> body]
NOW        == <<"2024-05-01 06:00:00">>    \* datetime.now(timezone.utc)

\* load_config, the user name, and the entry into fetch_repos
LoadConfig ==
    /\ pc = "load_config"
    /\ IF ~config_file.exists
       THEN /\ pc' = "exited" /\ exit_code' = 1
            /\ UNCHANGED <<cfg, username, page, repos>>
       ELSE LET loaded == config_file.body
                user   == IF Truthy(Get(loaded, "github_username", None))
                          THEN loaded["github_username"] ELSE env_actor
            IN  IF ~Truthy(user)
                THEN /\ pc' = "exited" /\ exit_code' = 1
                     /\ cfg' = loaded
                     /\ UNCHANGED <<username, page, repos>>
                ELSE /\ cfg' = loaded /\ username' = user
                     /\ repos' = <<>> /\ page' = 1
                     /\ pc' = "fetch_repos"
                     /\ UNCHANGED exit_code
    /\ UNCHANGED <<config_file, env_actor, listing, fail_page, aggVars, requests,
                   lang_section_md, feedVars, gifVars, visitor_badge, readme_md,
                   out_file, writes>>

\* the loop turn with the exception of gh_get caught, as the other fetchers do
FetchPageBestEffort ==
    /\ pc = "fetch_repos"
    /\ requests' = Append(requests, Request("repos", page))
    /\ LET page_data == RepoPage(page)
       IN  IF page_data.raised
           THEN /\ pc' = "fetch_languages_for_repos"
                /\ UNCHANGED <<page, repos, exit_code>>
           ELSE IF page_data.body = <<>>
           THEN /\ pc' = "fetch_languages_for_repos"
                /\ UNCHANGED <<page, repos, exit_code>>
           ELSE /\ repos' = repos \o page_data.body
                /\ IF Len(page_data.body) < PER_PAGE
                   THEN pc' = "fetch_languages_for_repos" /\ UNCHANGED page
                   ELSE pc' = "fetch_repos" /\ page' = page + 1
                /\ UNCHANGED exit_code
    /\ UNCHANGED <<cfgVars, listing, fail_page, aggVars, lang_section_md,
                   feedVars, gifVars, visitor_badge, readme_md, out_file, writes>>

\* the loop turn that stops after a full page
FetchPageNoProbe ==
    /\ pc = "fetch_repos"
    /\ requests' = Append(requests, Request("repos", page))
    /\ LET page_data == RepoPage(page)
       IN  IF page_data.raised
           THEN /\ pc' = "crashed" /\ exit_code' = 1
                /\ UNCHANGED <<page, repos>>
           ELSE IF page_data.body = <<>>
           THEN /\ pc' = "fetch_languages_for_repos"
                /\ UNCHANGED <<page, repos, exit_code>>
           ELSE /\ repos' = repos \o page_data.body
                /\ IF Len(page_data.body) <= PER_PAGE
                   THEN pc' = "fetch_languages_for_repos" /\ UNCHANGED page
                   ELSE pc' = "fetch_repos" /\ page' = page + 1
                /\ UNCHANGED exit_code
    /\ UNCHANGED <<cfgVars, listing, fail_page, aggVars, lang_section_md,
                   feedVars, gifVars, visitor_badge, readme_md, out_file, writes>>

\* one turn of fetch_repos' loop; the exception of gh_get is not caught
FetchPage ==
    /\ pc = "fetch_repos"
    /\ requests' = Append(requests, Request("repos", page))
    /\ LET page_data == RepoPage(page)
       IN  IF page_data.raised
           THEN /\ pc' = "crashed" /\ exit_code' = 1
                /\ UNCHANGED <<page, repos>>
           ELSE IF page_data.body = <<>>
           THEN /\ pc' = "fetch_languages_for_repos"
                /\ UNCHANGED <<page, repos, exit_code>>
           ELSE /\ repos' = repos \o page_data.body
                /\ IF Len(page_data.body) < PER_PAGE
                   THEN pc' = "fetch_languages_for_repos" /\ UNCHANGED page
                   ELSE pc' = "fetch_repos" /\ page' = page + 1
                /\ UNCHANGED exit_code
    /\ UNCHANGED <<cfgVars, listing, fail_page, aggVars, lang_section_md,
                   feedVars, gifVars, visitor_badge, readme_md, out_file, writes>>

FetchLanguages ==
    /\ pc = "fetch_languages_for_repos"
    /\ lang_totals' = fetch_languages_for_repos(repos, lang_api)
    /\ requests' = requests \o LanguageRequests(repos)
    /\ pc' = "build_language_section"
    /\ UNCHANGED <<cfgVars, reposVars, lang_api, lang_section_md, feedVars,
                   gifVars, outVars>>

BuildLanguageSection ==
    /\ pc = "build_language_section"
    /\ lang_section_md' = build_language_section(lang_totals)
    /\ pc' = "fetch_recent_commits"
    /\ UNCHANGED <<cfgVars, reposVars, aggVars, requests, feedVars, gifVars,
                   outVars>>

FetchRecentCommits ==
    /\ pc = "fetch_recent_commits"
    /\ requests' = Append(requests, Request("events", 0))
    /\ recent_commits' = fetch_recent_commits(events, limit)
    /\ pc' = "build_visitor_badge"
    /\ UNCHANGED <<cfgVars, reposVars, aggVars, lang_section_md, events, limit,
                   gifVars, outVars>>

BuildVisitorBadge ==
    /\ pc = "build_visitor_badge"
    /\ visitor_badge' = build_visitor_badge(username)
    /\ pc' = "find_gif_url"
    /\ UNCHANGED <<cfgVars, reposVars, aggVars, requests, lang_section_md,
                   feedVars, gifVars, readme_md, out_file, writes, exit_code>>

FindGifUrl ==
    /\ pc = "find_gif_url"
    /\ gif_url' = find_gif_url(cfg, username, fs)
    /\ pc' = "build_readme"
    /\ UNCHANGED <<cfgVars, reposVars, aggVars, requests, lang_section_md,
                   feedVars, fs, outVars>>

\* the dict main hands to build_readme: cfg.get(key) is None for a missing key
BuilderCfg ==
    [github_username   |-> username,
     display_name      |-> Get(cfg, "display_name", None),
     bio_code          |-> Get(cfg, "bio_code", None),
     linkedin_url      |-> Get(cfg, "linkedin_url", None),
     visitor_badge_url |-> visitor_badge,
     gif_url           |-> gif_url]

BuildReadme ==
    /\ pc = "build_readme"
    /\ LET built == build_readme(BuilderCfg,
                                 [stats |-> StatsImg(username),
                                  top_langs |-> TopLangsImg(username)],
                                 lang_section_md, recent_commits, NOW)
       IN  IF built.raised
           THEN pc' = "crashed" /\ exit_code' = 1 /\ UNCHANGED readme_md
           ELSE pc' = "write" /\ readme_md' = built.body /\ UNCHANGED exit_code
    /\ UNCHANGED <<cfgVars, reposVars, aggVars, requests, lang_section_md,
                   feedVars, gifVars, visitor_badge, out_file, writes>>

\* open(OUT_PATH, "w") and write, then the normal end of the process
WriteReadme ==
    /\ pc = "write"
    /\ out_file' = File(readme_md)
    /\ writes' = writes + 1
    /\ exit_code' = 0
    /\ pc' = "done"
    /\ UNCHANGED <<cfgVars, reposVars, aggVars, requests, lang_section_md,
                   feedVars, gifVars, visitor_badge, readme_md>>

Next ==
    \/ LoadConfig
    \/ FetchPage
    \/ FetchLanguages
    \/ BuildLanguageSection
    \/ FetchRecentCommits
    \/ BuildVisitorBadge
    \/ FindGifUrl
    \/ BuildReadme
    \/ WriteReadme

\* ------------------------------------------------------------ the inputs
\* variables that a function checked on its own does not touch
NoCfg   == config_file = Missing /\ env_actor = None /\ cfg = None /\ username = None
NoRepos == listing = <<>> /\ fail_page = 0 /\ page = 0 /\ repos = <<>>
NoAgg   == lang_api = <<>> /\ lang_totals = None
NoFeed  == events = HTTPError /\ limit = 0 /\ recent_commits = None
NoGif   == fs = {} /\ gif_url = None
NoOut   == /\ visitor_badge = None /\ readme_md = None /\ out_file = Missing
           /\ writes = 0 /\ exit_code = Running

Absent == <<"absent">>     \* marks a key that config.yml does not hold

\* the dict of the keys that are not marked absent
MakeCfg(vals) == [k \in {key \in DOMAIN vals : vals[key] # Absent} |-> vals[k]]

LangUrl(i) == <<"https://api.github.com/repos/octo/r", ToString(i), "/languages">>

Repo(i, fork, with_url) ==
    [id |-> i, fork |-> fork,
     languages_url |-> IF with_url THEN LangUrl(i) ELSE None]

\* commit c of event e; its message tells the two indices
Commit(e, c, with_sha) ==
    [sha     |-> IF with_sha THEN <<"sha", ToString(e), ToString(c)>> ELSE None,
     message |-> <<"msg", ToString(e), ToString(c)>>]

\* A push event of n commits, with or without a repository name and commit
\* identifiers, or an event of another type that carries one commit.
Event(e, type, n, shape) ==
    [type    |-> type,
     repo    |-> IF shape = "no_repo" THEN None ELSE <<"octo/app">>,
     commits |-> [c \in 1..n |-> Commit(e, c, shape # "no_sha")]]

EventChoices(e) ==
    {Event(e, "PushEvent", n, shape) :
        n \in 0..MaxCommits, shape \in {"full", "no_repo", "no_sha"}}
    \cup {Event(e, "WatchEvent", 1, "full")}

\* three push events of two commits each
ThreePushes == [e \in 1..3 |-> Event(e, "PushEvent", 2, "full")]

\* ---- the renderer on its own ---------------------------------------------
\* A language name is modelled by its rank in alphabetical order.
\* the insertion-ordered mapping with the given names and byte counts
Mapping(names, counts) ==
    [i \in DOMAIN names |-> [lang |-> names[i], bytes |-> counts[i]]]

\* the first k names, inserted in alphabetical or reverse alphabetical
\* order starting from the r-th
InsertionOrder(k, r, reversed) ==
    [i \in 1..k |-> LET j == ((i - 1 + r) % k) + 1
                    IN  IF reversed THEN k + 1 - j ELSE j]

\* {"A": 75, "B": 25}
ExampleTotals == <<[lang |-> 1, bytes |-> 75], [lang |-> 2, bytes |-> 25]>>

\* the input is an insertion-ordered mapping of at most MaxLangs languages
InitLang ==
    /\ pc = "build_language_section"
    /\ \/ lang_totals = ExampleTotals
       \/ \E k \in 0..MaxLangs :
            \E r \in 0..(IF k = 0 THEN 0 ELSE k - 1), reversed \in BOOLEAN,
               counts \in [1..k -> 0..MaxBytes] :
               lang_totals = Mapping(InsertionOrder(k, r, reversed), counts)
    /\ lang_api = <<>>
    /\ lang_section_md = None /\ requests = <<>>
    /\ NoCfg /\ NoRepos /\ NoFeed /\ NoGif /\ NoOut

SpecLang == InitLang /\ [][BuildLanguageSection]_vars

\* ---- the activity fetcher on its own -------------------------------------
InitCommits ==
    /\ pc = "fetch_recent_commits"
    /\ \/ events = HTTPError
       \/ \E k \in 0..MaxEvents :
            \E feed \in [1..k -> UNION {EventChoices(e) : e \in 1..k}] :
               /\ \A e \in 1..k : feed[e] \in EventChoices(e)
               /\ events = Ok(feed)
    /\ limit \in 0..MaxLimit
    /\ recent_commits = None
    /\ lang_section_md = None /\ requests = <<>>
    /\ NoCfg /\ NoRepos /\ NoAgg /\ NoGif /\ NoOut

SpecCommits == InitCommits /\ [][FetchRecentCommits]_vars

\* ---- the image resolver on its own ---------------------------------------
ExternalChoices ==
    {Absent, <<>>, <<" ">>, <<"https://cdn.example/x.gif">>,
     <<" ", "https://cdn.example/x.gif", " ">>}
GifPaths == {<<"assets", "/", "coder.gif">>, <<"assets", "\\", "coder.gif">>}
GifPathChoices ==
    {Absent, <<>>, <<" ">>, <<" ", "assets", "/", "coder.gif">>} \cup GifPaths
BranchChoices == {Absent, <<>>, <<" ">>, <<"dev">>, <<"dev", " ">>}

InitGif ==
    /\ pc = "find_gif_url"
    /\ config_file = Missing /\ env_actor = None
    /\ \E external \in ExternalChoices, path \in GifPathChoices,
          branch \in BranchChoices :
          cfg = MakeCfg([external_gif_url |-> external, gif_path |-> path,
                         branch_name |-> branch])
    /\ username = <<"octo">>
    /\ fs \in SUBSET GifPaths
    /\ gif_url = None
    /\ lang_section_md = None /\ requests = <<>>
    /\ NoRepos /\ NoAgg /\ NoFeed /\ NoOut

SpecGif == InitGif /\ [][FindGifUrl]_vars

\* ---- the aggregator on its own -------------------------------------------
LanguageAnswers ==
    {HTTPError,
     Ok(<<[lang |-> 1, bytes |-> 2]>>),
     Ok(<<[lang |-> 2, bytes |-> 1], [lang |-> 1, bytes |-> 3]>>)}

RepoShapes == {"own", "fork", "no_url"}

InitAgg ==
    /\ pc = "fetch_languages_for_repos"
    /\ \E k \in 0..MaxAggRepos :
         \E shapes \in [1..k -> RepoShapes], answers \in [1..k -> LanguageAnswers] :
            /\ repos = [i \in 1..k |-> Repo(i, shapes[i] = "fork", shapes[i] # "no_url")]
            /\ lang_api = answers
    /\ listing = <<>> /\ fail_page = 0 /\ page = 0
    /\ lang_totals = None
    /\ lang_section_md = None /\ requests = <<>>
    /\ NoCfg /\ NoFeed /\ NoGif /\ NoOut

SpecAgg == InitAgg /\ [][FetchLanguages]_vars

\* ---- the repository fetcher on its own -----------------------------------
InitRepos ==
    /\ pc = "fetch_repos"
    /\ \E n \in 0..MaxRepos : listing = [i \in 1..n |-> Repo(i, FALSE, TRUE)]
    /\ fail_page \in 0..MaxFailPage
    /\ page = 1 /\ repos = <<>>
    /\ lang_section_md = None /\ requests = <<>>
    /\ NoCfg /\ NoAgg /\ NoFeed /\ NoGif /\ NoOut

SpecRepos == InitRepos /\ [][FetchPage]_vars

\* the interpreter runs the loop on: a turn that can be taken is taken
SpecReposFair == SpecRepos /\ WF_vars(FetchPage)

\* ---- a whole run ---------------------------------------------------------
Username  == <<"octo">>
Actor     == <<"actor">>
LinkedIn  == <<"https://www.linkedin.com/in/octo">>
AssetPath == <<"assets", "/", "coder.gif">>
Previous  == File(<<Line("previous README", <<>>)>>)

\* the second repository is a fork; the first three hold code, the others
\* are empty repositories
RemoteListing(n) == [i \in 1..n |-> Repo(i, i = 2, TRUE)]
LanguagesOf(i) ==
    IF i = 1 THEN <<[lang |-> 1, bytes |-> 3], [lang |-> 2, bytes |-> 1]>>
    ELSE IF i = 2 THEN <<[lang |-> 3, bytes |-> 7]>>
    ELSE IF i = 3 THEN <<[lang |-> 2, bytes |-> 2]>>
    ELSE <<>>

\* listings that end on, or one past, a page boundary
RepoCounts == {k * PER_PAGE + d : k \in 0..MaxPages, d \in {0, 1, 3}}

\* a run against a remote service that may fail anywhere
Init ==
    /\ pc = "load_config"
    /\ \/ config_file = Missing
       \/ \E user \in {Absent, Username}, linkedin \in {Absent, LinkedIn},
             path \in {Absent, AssetPath} :
             config_file = File(MakeCfg([github_username |-> user,
                                         linkedin_url |-> linkedin,
                                         gif_path |-> path]))
    /\ env_actor \in {None, Actor}
    /\ cfg = None /\ username = None
    /\ \E n \in RepoCounts :
         /\ listing = RemoteListing(n)
         /\ \E down \in SUBSET {1, 3}, rest_down \in BOOLEAN :
              lang_api = [i \in 1..n |->
                            IF i \in down \/ (i > 3 /\ rest_down)
                            THEN HTTPError ELSE Ok(LanguagesOf(i))]
    /\ fail_page \in 0..(MaxPages + 1)
    /\ page = 0 /\ repos = <<>>
    /\ lang_totals = None /\ lang_section_md = None /\ requests = <<>>
    /\ events \in {HTTPError, Ok(<<>>), Ok(ThreePushes)}
    /\ limit = MAIN_LIMIT /\ recent_commits = None
    /\ NoGif
    /\ visitor_badge = None /\ readme_md = None
    /\ out_file \in {Missing, Previous}
    /\ writes = 0 /\ exit_code = Running

Spec == Init /\ [][Next]_vars

\* a run whose remote requests all succeed, over every set of optional keys
OptionalKeys ==
    {"display_name", "bio_code", "linkedin_url", "external_gif_url", "gif_path",
     "branch_name"}

OptionalValue(key) ==
    IF key = "display_name" THEN <<"Octo Cat">>
    ELSE IF key = "bio_code" THEN <<"Coder me;">>
    ELSE IF key = "linkedin_url" THEN LinkedIn
    ELSE IF key = "external_gif_url" THEN <<"https://cdn.example/x.gif">>
    ELSE IF key = "gif_path" THEN AssetPath
    ELSE <<"dev">>

InitOptional ==
    /\ pc = "load_config"
    /\ \E present \in SUBSET OptionalKeys, named \in BOOLEAN :
         /\ config_file =
               File([k \in present \cup (IF named THEN {"github_username"} ELSE {})
                       |-> IF k = "github_username" THEN Username
                           ELSE OptionalValue(k)])
         /\ env_actor = IF named THEN None ELSE Actor
    /\ cfg = None /\ username = None
    /\ \E n \in 0..MaxOwnRepos :
         /\ listing = RemoteListing(n)
         /\ lang_api = [i \in 1..n |-> Ok(LanguagesOf(i))]
    /\ fail_page = 0
    /\ page = 0 /\ repos = <<>>
    /\ lang_totals = None /\ lang_section_md = None /\ requests = <<>>
    /\ events \in {Ok(<<>>), Ok(ThreePushes)}
    /\ limit = MAIN_LIMIT /\ recent_commits = None
    /\ fs \in SUBSET {AssetPath} /\ gif_url = None
    /\ visitor_badge = None /\ readme_md = None
    /\ out_file \in {Missing, Previous}
    /\ writes = 0 /\ exit_code = Running

SpecOptional == InitOptional /\ [][Next]_vars

\* ======================================================== the properties
RangeOf(seq) == {seq[i] : i \in DOMAIN seq}

\* the commits of the push events, in feed order
PushCommits(feed) ==
    LET RECURSIVE Flat(_)
        Flat(e) ==
            IF e = 0 THEN <<>>
            ELSE Flat(e - 1) \o
                 (IF feed[e].type = "PushEvent"
                  THEN [c \in 1..Len(feed[e].commits) |->
                           CommitRef(feed[e], feed[e].commits[c])]
                  ELSE <<>>)
    IN  Flat(Len(feed))

Min(a, b) == IF a <= b THEN a ELSE b

Fetched == pc = "build_visitor_badge" /\ ~events.raised

\* C1: the result holds at most N references and is the first min(N, M) of
\* the M commits of the push events taken in feed order.
C1_FirstNPushCommits ==
    Fetched =>
      /\ Len(recent_commits) <= limit
      /\ recent_commits =
            SubSeq(PushCommits(events.body), 1,
                   Min(limit, Len(PushCommits(events.body))))

\* ---- C2 ------------------------------------------------------------------
Aggregated == pc = "build_language_section"

\* the repositories that are not forks and whose language request succeeded
Contributors ==
    {i \in DOMAIN repos :
        /\ ~repos[i].fork
        /\ Request("languages", repos[i].id) \in RangeOf(requests)
        /\ ~lang_api[repos[i].id].raised}

HoldsLang(data, lang) == \E j \in DOMAIN data : data[j].lang = lang
BytesIn(data, lang) ==
    IF HoldsLang(data, lang)
    THEN (CHOOSE kv \in RangeOf(data) : kv.lang = lang).bytes ELSE 0

\* the bytes of lang summed over the contributing repositories
ContributedBytes(lang) ==
    LET RECURSIVE Sum(_)
        Sum(S) == IF S = {} THEN 0
                  ELSE LET i == CHOOSE x \in S : TRUE
                       IN  BytesIn(lang_api[repos[i].id].body, lang) + Sum(S \ {i})
    IN  Sum({i \in Contributors : HoldsLang(lang_api[repos[i].id].body, lang)})

\* C2: each language of the mapping holds the sum of its bytes over the
\* repositories that are not forks and whose request succeeded, a language
\* is in the mapping exactly if such a repository reports it, and no
\* request is issued for a fork.
C2_SumOverOwnRepos ==
    Aggregated =>
      /\ \A i, j \in DOMAIN lang_totals :
            i # j => lang_totals[i].lang # lang_totals[j].lang
      /\ \A lang \in 1..3 :
            /\ HoldsLang(lang_totals, lang)
                  <=> \E i \in Contributors : HoldsLang(lang_api[repos[i].id].body, lang)
            /\ BytesIn(lang_totals, lang) = ContributedBytes(lang)
      /\ \A i \in DOMAIN repos :
            repos[i].fork => Request("languages", repos[i].id) \notin RangeOf(requests)

\* a fork and a repository of the user's own that both report bytes, and a
\* repository whose request failed
C2_Witness ==
    /\ Aggregated
    /\ \E i \in DOMAIN repos : repos[i].fork /\ ~lang_api[repos[i].id].raised
    /\ \E i \in DOMAIN repos : Requested(repos[i]) /\ lang_api[repos[i].id].raised
    /\ Contributors # {}

\* ---- C3 ------------------------------------------------------------------
\* the request of a page of the listing has failed
ListingFailed == fail_page > 0 /\ Request("repos", fail_page) \in RangeOf(requests)

\* C3: once a page request of the listing has failed the run is aborted: no
\* request other than those of the listing was or is issued, nothing
\* is written, and README.md stays as it was.
C3_ListingFailureAborts ==
    /\ [](ListingFailed =>
            /\ pc = "crashed" /\ exit_code = 1
            /\ \A i \in DOMAIN requests : requests[i].endpoint = "repos"
            /\ writes = 0
            /\ out_file \in {Missing, Previous})
    /\ [][ListingFailed' => out_file' = out_file]_vars

\* the second page fails after the first was fetched, with a README on disk
C3_Witness ==
    /\ ListingFailed
    /\ fail_page = 2
    /\ Len(repos) = PER_PAGE
    /\ out_file = Previous

\* ---- C4 ------------------------------------------------------------------
ListingSucceeded ==
    pc \notin {"load_config", "fetch_repos", "exited"} /\ ~ListingFailed

PlaceholderShown == \E i \in DOMAIN readme_md : readme_md[i].tpl = NO_COMMITS

\* C4: once the listing has succeeded the run is not aborted, whichever
\* language requests and whether or not the activity request fail; it ends
\* with the document written once, the failed repositories left out of the
\* totals and a failed activity request shown as the placeholder.
C4_FetchFailuresNeverAbort ==
    ListingSucceeded =>
      /\ pc # "crashed"
      /\ pc = "done" =>
            /\ writes = 1 /\ out_file = File(readme_md)
            /\ \A lang \in 1..3 : BytesIn(lang_totals, lang) = ContributedBytes(lang)
            /\ events.raised => recent_commits = <<>> /\ PlaceholderShown

\* ---- C5 ------------------------------------------------------------------
HasLine(tpl) == \E i \in DOMAIN readme_md : readme_md[i].tpl = tpl

\* C5: with a resolvable user name and all requests succeeding, whichever
\* optional keys the configuration omits, the builder does not fail and the
\* run ends with exit code 0 and the document written, without the
\* sections of the omitted keys.
C5_OptionalKeysMayBeOmitted ==
    /\ pc \notin {"crashed", "exited"}
    /\ exit_code \in {Running, 0}
    /\ pc = "done" =>
          /\ writes = 1 /\ out_file = File(readme_md)
          /\ "bio_code" \notin DOMAIN cfg => ~HasLine("{bio_code}")
          /\ "linkedin_url" \notin DOMAIN cfg
                => ~HasLine("[![LinkedIn]({shield})]({linkedin})  ")

\* ---- rendered table, read back ------------------------------------------
Rendered == pc = "fetch_recent_commits"
HasTable == Rendered /\ SumBytes(lang_totals) > 0
Rows     == SubSeq(lang_section_md, 3, Len(lang_section_md))

BytesOf(lang) ==
    (CHOOSE kv \in {lang_totals[i] : i \in DOMAIN lang_totals} : kv.lang = lang).bytes

FilledOf(bar) == Cardinality({i \in DOMAIN bar : bar[i] = FILLED})
Tenths(pct_str) == pct_str[1] * 10 + pct_str[3]

\* C6: every bar is `filled` full glyphs followed by 20 - filled light
\* glyphs, 0 <= filled <= 20, where filled is an integer nearest to
\* bytes / total * 20 (round of that quotient); the totals {A: 75, B: 25}
\* give A 15 full and 5 light glyphs, B 5 full and 15 light.
C6_BarShape ==
    HasTable =>
      \A r \in DOMAIN Rows :
        LET bar    == Rows[r].bar
            filled == FilledOf(bar)
            b      == BytesOf(Rows[r].lang)
            total  == SumBytes(lang_totals)
        IN  /\ Len(bar) = BAR_LENGTH
            /\ filled \in 0..BAR_LENGTH
            /\ \A i \in 1..BAR_LENGTH :
                  bar[i] = IF i <= filled THEN FILLED ELSE EMPTY
            /\ 2 * Abs(BAR_LENGTH * b - filled * total) <= total
            /\ lang_totals = ExampleTotals =>
                  filled = IF Rows[r].lang = 1 THEN 15 ELSE 5

\* a bar that is neither empty nor full and whose quotient is not integral
C6_Witness ==
    /\ HasTable
    /\ \E r \in DOMAIN Rows :
          /\ FilledOf(Rows[r].bar) \in 1..(BAR_LENGTH - 1)
          /\ (BAR_LENGTH * BytesOf(Rows[r].lang)) % SumBytes(lang_totals) # 0

SumTenths ==
    LET RECURSIVE S(_)
        S(i) == IF i = 0 THEN 0 ELSE S(i - 1) + Tenths(Rows[i].pct_str)
    IN  S(Len(Rows))

\* C7 as stated: the rendered percentages add up to 100.0 give or take 0.1
C7_SumWithinOneTenth ==
    HasTable => Abs(SumTenths - 1000) <= 1

\* C7 amended: each rendered percentage is within 0.05 of its row's exact
\* percentage, so the rendered percentages add up to 100.0 give or take
\* 0.05 per row.
C7_SumWithinHalfTenthPerRow ==
    HasTable =>
      /\ \A r \in DOMAIN Rows :
            2 * Abs(1000 * BytesOf(Rows[r].lang)
                    - Tenths(Rows[r].pct_str) * SumBytes(lang_totals))
              <= SumBytes(lang_totals)
      /\ 2 * Abs(SumTenths - 1000) <= Len(Rows)

\* a table whose rendered percentages do not add up to 100.0
C7_Witness == HasTable /\ SumTenths # 1000

Swap(s, i) == [s EXCEPT ![i] = s[i + 1], ![i + 1] = s[i]]

RowsBytesDescending ==
    \A r \in 1..(Len(Rows) - 1) :
        BytesOf(Rows[r].lang) >= BytesOf(Rows[r + 1].lang)

\* C8 as stated: rows by bytes descending, ties by name ascending, and the
\* table does not depend on the insertion order of the mapping.
C8_OrderIndependent ==
    Rendered =>
      /\ HasTable =>
            /\ RowsBytesDescending
            /\ \A r \in 1..(Len(Rows) - 1) :
                  BytesOf(Rows[r].lang) = BytesOf(Rows[r + 1].lang)
                      => Rows[r].lang < Rows[r + 1].lang
      /\ \A i \in 1..(Len(lang_totals) - 1) :
            build_language_section(Swap(lang_totals, i)) = lang_section_md

PositionOf(lang) == CHOOSE i \in DOMAIN lang_totals : lang_totals[i].lang = lang

\* C8 amended: rows by bytes descending, ties in insertion order; exchanging
\* two neighbouring entries of different byte count leaves the table as is.
C8_OrderIndependentUpToTies ==
    Rendered =>
      /\ HasTable =>
            /\ RowsBytesDescending
            /\ Len(Rows) = Len(lang_totals)
            /\ \A r \in 1..(Len(Rows) - 1) :
                  BytesOf(Rows[r].lang) = BytesOf(Rows[r + 1].lang)
                      => PositionOf(Rows[r].lang) < PositionOf(Rows[r + 1].lang)
      /\ \A i \in 1..(Len(lang_totals) - 1) :
            lang_totals[i].bytes # lang_totals[i + 1].bytes
                => build_language_section(Swap(lang_totals, i)) = lang_section_md

\* a table rendered from a mapping that was not inserted in row order
C8_Witness ==
    /\ HasTable
    /\ \E i \in 1..(Len(lang_totals) - 1) :
          lang_totals[i].bytes < lang_totals[i + 1].bytes
    /\ \E i \in 1..(Len(lang_totals) - 1) :
          lang_totals[i].bytes = lang_totals[i + 1].bytes

\* the three settings as the resolver reads them: blanks at the ends removed
ExternalSetting == Strip(Get(cfg, "external_gif_url", <<>>))
GifPathSetting  == Strip(Get(cfg, "gif_path", <<>>))
BranchSetting   ==
    IF "branch_name" \in DOMAIN cfg /\ Strip(cfg["branch_name"]) # <<>>
    THEN Strip(cfg["branch_name"]) ELSE <<"Main">>

RawContentUrl ==
    <<"https://raw.githubusercontent.com/">> \o username \o <<"/">> \o username
    \o <<"/">> \o BranchSetting \o <<"/">> \o GifPathSetting

Returned == pc = "fetch_languages_for_repos"
LastPage == Len(listing) \div PER_PAGE + 1

PagesInOrder ==
    /\ pc = "fetch_repos" =>
          /\ page <= LastPage
          /\ requests = [p \in 1..(page - 1) |-> Request("repos", p)]
    /\ Returned =>
          /\ requests = [p \in 1..LastPage |-> Request("repos", p)]
          /\ repos = listing

\* C10: fetch_repos ends; it asks for pages 1, 2, 3, ... in order and never
\* goes past page floor(n / 100) + 1; when no request fails it returns after
\* exactly that many requests with the n records of the listing, each once,
\* in listing order.
C10_PaginationReturnsListing ==
    /\ []PagesInOrder
    /\ <>(pc # "fetch_repos")
    /\ [](fail_page \notin 1..LastPage => <>Returned)

\* a listing of two full pages, returned after a third, empty page
C10_Witness ==
    /\ Returned
    /\ Len(listing) = 2 * PER_PAGE
    /\ Len(requests) = 3
    /\ Len(repos) = 2 * PER_PAGE

====
